---- MODULE Spec2Model ----
(***************************************************************************)
(* Window-state and positioning coordinator of the Soluma Chat desktop     *)
(* shell (src/index.js): the main, companion and login windows, the tray   *)
(* icon and its context menu, the global hotkey, the persisted store and   *)
(* the handlers of the events that drive them.                             *)
(*                                                                         *)
(* Every handler runs to completion on the single control thread, so each  *)
(* handler is one action.  A handler is written as a composition of        *)
(* operators over a record of the program state, one operator per          *)
(* function of the source; an operator applied to a state whose `fault'    *)
(* field is set returns it unchanged, which is how a thrown exception      *)
(* abandons the rest of the handler.  A method call on a null reference    *)
(* or on a destroyed native object throws.                                 *)
(***************************************************************************)
EXTENDS Integers, Sequences, FiniteSets, TLC

VARIABLES
    running,          \* the process has not quit
    started,          \* the whenReady handler has run
    platform,         \* process.platform
    screen,           \* work area of the primary display, <<width, height>>
    serverHost,       \* store key "serverHost" (NoHost when absent)
    settings,         \* store key "settings"
    wins,             \* native windows ever created, indexed by identity
    mainWindow,       \* the three module-level references (Null or an identity)
    companionWindow,
    loginWindow,
    tray,             \* TRUE when the reference holds a live tray icon, FALSE when null
    clickListeners,   \* number of 'click' listeners on the tray icon
    rightClickMenus,  \* the context menu captured by each 'right-click' listener
    appMenu,          \* host the application menu was built for (NoMenu before)
    hotkey,           \* the global accelerator is registered
    dialog,           \* the message box awaiting an answer
    fault,            \* how the last handler ended: NoFault, or the exception it threw
    clearInput,       \* the last handler sent "clear-server-host-input"
    toggles,          \* toggleWindow calls made by the last handler
    popups,           \* context menus popped up by the last handler
    rebuilds,         \* createTray passes that set up listeners on the present icon
    lastEvent,        \* name of the last event handled
    events,           \* number of events handled so far
    before,           \* what the last handler found: controller state, tray, position
    run,              \* length of the current run of consecutive toggles begun from Hidden
    trace,            \* the steps the last handler took, in order
    rPosition,        \* resolver call: position name
    rWindow,          \* resolver call: window bounds, <<width, height>>
    rScreen,          \* resolver call: work area, <<width, height>>
    rResult           \* resolver call: NoResult, or the <<x, y>> returned

vars == <<running, started, platform, screen, serverHost, settings, wins,
          mainWindow, companionWindow, loginWindow, tray, clickListeners,
          rightClickMenus, appMenu, hotkey, dialog, fault, clearInput,
          toggles, popups, rebuilds, lastEvent, events, before, run, trace,
          rPosition, rWindow, rScreen, rResult>>

(***************************************************************************)
(* Bounds.                                                                 *)
(***************************************************************************)
\* Number of events handled in a run.
MaxEvents == 5

\* Largest window and work-area dimensions the resolver is called with,
\* besides the sizes of the spec's examples.
MaxWindowDim == 4
MaxScreenDim == 25

(***************************************************************************)
(* Values.                                                                 *)
(***************************************************************************)
Null == 0
NoHost == <<>>
NoMenu == <<"no-menu">>
NoDialog == [kind |-> "none", host |-> NoHost, sender |-> Null]
Undefined == "undefined"

\* Outcome of a handler.  A method call on null throws a TypeError, a method
\* call on a destroyed native object throws "Object has been destroyed".
NoFault == "none"
NullReference == "TypeError: null"
ObjectDestroyed == "Object has been destroyed"

ToggleEvents == {"hotkey", "tray-click", "menu-open-companion"}

NoResult == <<>>

\* Where the user drops a companion window dragged by its title strip.
DragTargets == { <<7, 7>> }

\* A host string is kept as its scheme prefix (when it has one) and the rest.
Hosts == { <<"http://", "chat.local">>, <<"chat.local">> }

Platforms == {"darwin", "win32"}
ScreenSizes == { <<1920, 1080>> }

PositionNames == {"top-center", "bottom-center", "bottom-left", "bottom-right",
                  "center", "top-right"}
PositionItems == {"bottom-center", "bottom-left", "bottom-right"}
VisibilityItems == {"always", "running", "never"}

CompanionWidth == 400
CompanionHeight == 600
Padding == 20

NoSettings == [present |-> FALSE, position |-> Undefined, trayVisibility |-> Undefined]

\* The settings records the program can have persisted: only updateSetting and
\* the 'Show Tray Icon' item write the key, one field at a time.
StoredSettings ==
    {NoSettings} \cup
    { r \in [present : {TRUE},
             position : PositionItems \cup {Undefined},
             trayVisibility : VisibilityItems \cup {Undefined}] :
        r.position # Undefined \/ r.trayVisibility # Undefined }

startsWith(host, prefix) == Len(host) > 0 /\ host[1] = prefix

(***************************************************************************)
(* The program state as one record, and its write-back to the variables.   *)
(***************************************************************************)
St == [running |-> running, started |-> started, platform |-> platform,
       screen |-> screen, serverHost |-> serverHost, settings |-> settings,
       wins |-> wins, mainWindow |-> mainWindow,
       companionWindow |-> companionWindow, loginWindow |-> loginWindow,
       tray |-> tray, clickListeners |-> clickListeners,
       rightClickMenus |-> rightClickMenus, appMenu |-> appMenu,
       hotkey |-> hotkey, dialog |-> dialog, fault |-> fault,
       clearInput |-> clearInput, toggles |-> toggles, popups |-> popups,
       rebuilds |-> rebuilds,
       lastEvent |-> lastEvent, trace |-> trace, closedAny |-> FALSE]

\* State of the companion window controller (spec 4.2) for the module-level
\* reference.
CompanionState(s) ==
    IF s.companionWindow = Null THEN "Uncreated"
    ELSE IF ~s.wins[s.companionWindow].alive THEN "Destroyed"
    ELSE IF ~s.wins[s.companionWindow].visible THEN "Hidden"
    ELSE IF s.wins[s.companionWindow].focused THEN "VisibleFocused"
    ELSE "VisibleUnfocused"

\* The state a handler starts from: the outcome fields of the previous
\* handler are cleared.
Begin(event) == [St EXCEPT !.fault = NoFault, !.clearInput = FALSE, !.toggles = 0,
                           !.popups = 0, !.lastEvent = event, !.trace = <<>>]

Step(s, name) == [s EXCEPT !.trace = Append(@, name)]

Threw(s) == s.fault # NoFault

Throw(s, exception) == [s EXCEPT !.fault = exception]

\* Method call on the object behind reference w.
Deref(s, w) == IF w = Null THEN Throw(s, NullReference) ELSE Throw(s, ObjectDestroyed)

(***************************************************************************)
(* Native windows.                                                         *)
(***************************************************************************)
IsDestroyed(s, w) == ~s.wins[w].alive
LiveWindows(s, k) == { w \in 1..Len(s.wins) : s.wins[w].alive /\ s.wins[w].kind = k }
getAllWindows(s) == { w \in 1..Len(s.wins) : s.wins[w].alive }

\* A window created without coordinates is centred on the display.
InitialPosition(s) == << (s.screen[1] - CompanionWidth + 1) \div 2,
                         (s.screen[2] - CompanionHeight + 1) \div 2 >>
Origin == <<0, 0>>

\* Input focus belongs to one window at a time: a window that is shown or
\* focused takes it from the companion windows.
Blur(ws) == [w \in 1..Len(ws) |-> [ws[w] EXCEPT !.focused = FALSE]]

NewWindow(s, k, shown, at) ==
    Append(Blur(s.wins),
           [kind |-> k, alive |-> TRUE, visible |-> shown, focused |-> FALSE, pos |-> at])

\* The record of a destroyed window keeps only its kind.
Dead(k) == [kind |-> k, alive |-> FALSE, visible |-> FALSE, focused |-> FALSE, pos |-> Origin]

(***************************************************************************)
(* close(): the native window is released and its 'closed' listeners run.  *)
(* Only main windows have one: it clears the module-level reference,       *)
(* whichever main window it was registered on.                             *)
(***************************************************************************)
OnClosed(s, w) ==
    IF s.wins[w].kind = "main" THEN [s EXCEPT !.mainWindow = Null] ELSE s

Close(s, w) ==
    IF Threw(s) THEN s
    ELSE IF w = Null \/ IsDestroyed(s, w) THEN Deref(s, w)
    ELSE OnClosed([s EXCEPT !.wins[w] = Dead(s.wins[w].kind), !.closedAny = TRUE], w)

(***************************************************************************)
(* Window creation.                                                        *)
(***************************************************************************)
createLoginWindow(s) ==
    IF Threw(s) THEN s
    ELSE Step([s EXCEPT !.wins = NewWindow(s, "login", TRUE, Origin),
                        !.loginWindow = Len(s.wins) + 1], "createLoginWindow")

buildMenu(s, host) ==
    IF Threw(s) THEN s ELSE Step([s EXCEPT !.appMenu = host], "buildMenu")

createMainWindow(s, host) ==
    IF Threw(s) THEN s
    ELSE buildMenu(Step([s EXCEPT !.wins = NewWindow(s, "main", TRUE, Origin),
                                  !.mainWindow = Len(s.wins) + 1],
                        "createMainWindow"), host)

createCompanionWindow(s, host) ==
    IF Threw(s) THEN s
    ELSE Step([s EXCEPT !.wins = Append(s.wins,
                            [kind |-> "companion", alive |-> TRUE, visible |-> FALSE,
                             focused |-> FALSE, pos |-> InitialPosition(s)]),
                        !.companionWindow = Len(s.wins) + 1],
              "createCompanionWindow")

\* Variant: the main window is created before the companion window.
initializeMainFirst(s) ==
    IF Threw(s) THEN s
    ELSE IF s.serverHost # NoHost
         THEN createCompanionWindow(createMainWindow(s, s.serverHost), s.serverHost)
         ELSE createLoginWindow(s)

initialize(s) ==
    IF Threw(s) THEN s
    ELSE IF s.serverHost # NoHost
         THEN createMainWindow(createCompanionWindow(s, s.serverHost), s.serverHost)
         ELSE createLoginWindow(s)

(***************************************************************************)
(* Position resolver.  Math.round rounds halves upwards; the operands are  *)
(* integers, so n/2 and n*0.1 are rounded exactly by these two.            *)
(***************************************************************************)
RoundHalf(n) == (n + 1) \div 2
\* Variant: the tenth is truncated instead of rounded.
RoundTenthDown(n) == n \div 10

RoundTenth(n) == (n + 5) \div 10

\* Variant: the bottom padding is added instead of subtracted.
WindowPositionPaddingBelow(position, ww, wh, sw, sh) ==
    CASE position = "bottom-center" -> << RoundHalf(sw - ww), sh - wh + Padding >>
      [] position = "bottom-left"   -> << Padding, sh - wh + Padding >>
      [] position = "bottom-right"  -> << sw - ww - Padding, sh - wh + Padding >>
      [] position = "center"        -> << RoundHalf(sw - ww), RoundHalf(sh - wh) >>
      [] position = "top-right"     -> << sw - ww - Padding, RoundTenth(sh) >>
      [] OTHER                      -> << RoundHalf(sw - ww), RoundTenth(sh) >>

WindowPosition(position, ww, wh, sw, sh) ==
    CASE position = "bottom-center" -> << RoundHalf(sw - ww), sh - wh - Padding >>
      [] position = "bottom-left"   -> << Padding, sh - wh - Padding >>
      [] position = "bottom-right"  -> << sw - ww - Padding, sh - wh - Padding >>
      [] position = "center"        -> << RoundHalf(sw - ww), RoundHalf(sh - wh) >>
      [] position = "top-right"     -> << sw - ww - Padding, RoundTenth(sh) >>
      [] OTHER                      -> << RoundHalf(sw - ww), RoundTenth(sh) >>

\* store.get('settings') || { position: 'top-center' }, then
\* overridePosition || settings.position
PositionSetting(s, overridePosition) ==
    IF overridePosition # Undefined THEN overridePosition
    ELSE IF s.settings.present THEN s.settings.position
    ELSE "top-center"

\* Reads the bounds of the companion window: throws on a null or destroyed one.
CanResolve(s) == s.companionWindow # Null /\ ~IsDestroyed(s, s.companionWindow)

getWindowPosition(s, overridePosition) ==
    WindowPosition(PositionSetting(s, overridePosition),
                   CompanionWidth, CompanionHeight, s.screen[1], s.screen[2])

(***************************************************************************)
(* Companion window controller.                                            *)
(***************************************************************************)
setPosition(s, at) == [s EXCEPT !.wins[s.companionWindow].pos = at]

show(s) == [s EXCEPT !.wins[s.companionWindow].visible = TRUE]

focus(s) ==
    [s EXCEPT !.wins = [Blur(s.wins) EXCEPT ![s.companionWindow].focused = TRUE]]

\* Variant: the window stays on screen and only gives up the focus.
hideKeepsVisible(s) ==
    [s EXCEPT !.wins[s.companionWindow].focused = FALSE]

\* Variant: the window is closed instead of hidden.
hideDestroys(s) ==
    [s EXCEPT !.wins[s.companionWindow] = Dead("companion")]

hide(s) ==
    [s EXCEPT !.wins[s.companionWindow].visible = FALSE,
              !.wins[s.companionWindow].focused = FALSE]

\* Variant: the window is shown where it was left.
showWindowKeepsPlace(s) ==
    IF Threw(s) THEN s
    ELSE IF ~CanResolve(s) THEN Deref(s, s.companionWindow)
    ELSE focus(show(s))

showWindow(s) ==
    IF Threw(s) THEN s
    ELSE IF ~CanResolve(s) THEN Deref(s, s.companionWindow)
    ELSE focus(show(setPosition(s, getWindowPosition(s, Undefined))))

\* Variant: a visible window is hidden whether or not it has the focus.
toggleWindowHidesUnfocused(s) ==
    IF Threw(s) THEN s
    ELSE LET t == [s EXCEPT !.toggles = @ + 1] IN
         IF t.companionWindow = Null \/ IsDestroyed(t, t.companionWindow)
         THEN Deref(t, t.companionWindow)
         ELSE IF t.wins[t.companionWindow].visible THEN hide(t) ELSE showWindow(t)

toggleWindow(s) ==
    IF Threw(s) THEN s
    ELSE LET t == [s EXCEPT !.toggles = @ + 1] IN
         IF t.companionWindow = Null \/ IsDestroyed(t, t.companionWindow)
         THEN Deref(t, t.companionWindow)
         ELSE IF t.wins[t.companionWindow].visible
              THEN IF t.wins[t.companionWindow].focused THEN hide(t) ELSE focus(t)
              ELSE showWindow(t)

(***************************************************************************)
(* Tray controller.                                                        *)
(***************************************************************************)
\* store.get('settings') || { position: 'top-center', ..., trayVisibility: 'always' }
TraySettings(s) ==
    IF s.settings.present THEN s.settings
    ELSE [present |-> TRUE, position |-> "top-center", trayVisibility |-> "always"]

\* The template of the context menu: for each radio group, the items built
\* with checked: true.
contextMenu(st) ==
    [position |-> { p \in PositionItems : st.position = p },
     trayVisibility |-> { v \in VisibilityItems : st.trayVisibility = v }]

\* Variant: the listeners of the earlier passes stay registered.
removeAllListenersKeepsThem(s) == s

removeAllListeners(s) == [s EXCEPT !.clickListeners = 0, !.rightClickMenus = <<>>]

on(s, menu) == [s EXCEPT !.clickListeners = @ + 1,
                         !.rightClickMenus = Append(@, menu),
                         !.rebuilds = @ + 1]

\* Variant: 'never' returns without destroying the icon.
createTrayKeepsIcon(s) ==
    IF Threw(s) THEN s
    ELSE LET t == Step(s, "createTray") IN
         IF TraySettings(t).trayVisibility = "never" THEN t
         ELSE on(removeAllListeners([t EXCEPT !.tray = TRUE]),
                 contextMenu(TraySettings(t)))

createTray(s) ==
    IF Threw(s) THEN s
    ELSE LET t == Step(s, "createTray") IN
         IF TraySettings(t).trayVisibility = "never"
         THEN IF t.tray
              THEN removeAllListeners([t EXCEPT !.tray = FALSE, !.rebuilds = 0])
              ELSE t
         ELSE on(removeAllListeners([t EXCEPT !.tray = TRUE]),
                 contextMenu(TraySettings(t)))

setSetting(st, key, value) ==
    IF key = "position"
    THEN [present |-> TRUE, position |-> value, trayVisibility |-> st.trayVisibility]
    ELSE [present |-> TRUE, position |-> st.position, trayVisibility |-> value]

\* Variant: the window is left where it is.
updateSettingKeepsPlace(s, key, value) ==
    IF Threw(s) THEN s
    ELSE createTray([s EXCEPT !.settings = setSetting(s.settings, key, value)])

\* Variant: the menu is rebuilt before the store is written.
updateSettingRebuildsFirst(s, key, value) ==
    IF Threw(s) THEN s
    ELSE LET t == [createTray(s) EXCEPT !.settings = setSetting(s.settings, key, value)] IN
         IF key = "position" /\ t.companionWindow # Null
         THEN IF IsDestroyed(t, t.companionWindow) THEN Deref(t, t.companionWindow)
              ELSE setPosition(t, getWindowPosition(t, value))
         ELSE t

updateSetting(s, key, value) ==
    IF Threw(s) THEN s
    ELSE LET t == createTray([s EXCEPT !.settings = setSetting(s.settings, key, value)]) IN
         IF key = "position" /\ t.companionWindow # Null
         THEN IF IsDestroyed(t, t.companionWindow) THEN Deref(t, t.companionWindow)
              ELSE setPosition(t, getWindowPosition(t, value))
         ELSE t

(***************************************************************************)
(* End of a handler: the variables take the values the handler computed.   *)
(* When the handler closed the last live window, 'window-all-closed' quits *)
(* the application on every platform but darwin.                           *)
(***************************************************************************)
windowAllClosed(s) ==
    IF s.closedAny /\ getAllWindows(s) = {} /\ s.platform # "darwin"
    THEN [s EXCEPT !.running = FALSE]
    ELSE s

Commit(r) ==
    LET s == windowAllClosed(r) IN
    /\ events < MaxEvents
    /\ events' = events + 1
    /\ before' = [companion |-> CompanionState(St), tray |-> tray,
                  pos |-> IF companionWindow = Null THEN Origin
                          ELSE wins[companionWindow].pos]
    /\ run' = IF s.lastEvent \notin ToggleEvents THEN 0
              ELSE IF run > 0 THEN run + 1
              ELSE IF CompanionState(St) = "Hidden" THEN 1
              ELSE 0
    /\ running' = s.running
    /\ started' = s.started
    /\ platform' = s.platform
    /\ screen' = s.screen
    /\ serverHost' = s.serverHost
    /\ settings' = s.settings
    /\ wins' = s.wins
    /\ mainWindow' = s.mainWindow
    /\ companionWindow' = s.companionWindow
    /\ loginWindow' = s.loginWindow
    /\ tray' = s.tray
    /\ clickListeners' = s.clickListeners
    /\ rightClickMenus' = s.rightClickMenus
    /\ appMenu' = s.appMenu
    /\ hotkey' = s.hotkey
    /\ dialog' = s.dialog
    /\ fault' = s.fault
    /\ clearInput' = s.clearInput
    /\ toggles' = s.toggles
    /\ popups' = s.popups
    /\ rebuilds' = s.rebuilds
    /\ lastEvent' = s.lastEvent
    /\ trace' = s.trace
    /\ UNCHANGED <<rPosition, rWindow, rScreen, rResult>>

Ready == running /\ started

(***************************************************************************)
(* app.whenReady(): initialize, createTray, register the hotkey.           *)
(***************************************************************************)
WhenReady ==
    /\ running /\ ~started
    /\ Commit(Step([createTray(initialize(Begin("ready")))
                       EXCEPT !.started = TRUE, !.hotkey = TRUE],
                   "globalShortcut.register"))

(***************************************************************************)
(* The three triggers of toggleWindow.                                     *)
(***************************************************************************)
GlobalShortcut ==
    /\ Ready /\ hotkey
    /\ LET s == Begin("hotkey") IN
       Commit(IF s.companionWindow # Null /\ ~IsDestroyed(s, s.companionWindow)
              THEN toggleWindow(s) ELSE s)

\* tray.emit('click'): every registered listener calls toggleWindow.
RECURSIVE EmitClick(_, _)
EmitClick(s, n) == IF n = 0 THEN s ELSE EmitClick(toggleWindow(s), n - 1)

TrayClick ==
    /\ Ready /\ tray
    /\ Commit(EmitClick(Begin("tray-click"), clickListeners))

TrayRightClick ==
    /\ Ready /\ tray
    /\ Commit([Begin("tray-right-click") EXCEPT !.popups = Len(rightClickMenus)])

\* The items of the context menu are reachable once a right-click pops it up.
TrayMenu == Ready /\ tray /\ Len(rightClickMenus) > 0

MenuOpenCompanion ==
    /\ TrayMenu
    /\ Commit(toggleWindow(Begin("menu-open-companion")))

MenuOpenMain ==
    /\ TrayMenu
    /\ LET s == Begin("menu-open-main") IN
       Commit(IF s.mainWindow = Null \/ IsDestroyed(s, s.mainWindow)
              THEN IF s.serverHost # NoHost THEN createMainWindow(s, s.serverHost) ELSE s
              ELSE [s EXCEPT !.wins = [Blur(s.wins) EXCEPT ![s.mainWindow].visible = TRUE,
                                                           ![s.mainWindow].focused = TRUE]])

MenuPosition ==
    /\ TrayMenu
    /\ \E p \in PositionItems :
         Commit(updateSetting(Begin("menu-position"), "position", p))

MenuVisibility ==
    /\ TrayMenu
    /\ \E v \in VisibilityItems :
         Commit(updateSetting(Begin("menu-visibility"), "trayVisibility", v))

MenuQuit ==
    /\ TrayMenu
    /\ Commit([Begin("menu-quit") EXCEPT !.running = FALSE])

(***************************************************************************)
(* Application events.                                                     *)
(***************************************************************************)
Activate ==
    /\ Ready /\ platform = "darwin"
    /\ LET s == Begin("activate") IN
       Commit(IF Cardinality(getAllWindows(s)) = 0 THEN initialize(s) ELSE s)

\* store.set("serverHost", ...); createMainWindow(...); createCompanionWindow(...)
connect(s, host) ==
    createCompanionWindow(
        createMainWindow(Step([s EXCEPT !.serverHost = host], "store.set"), host), host)

\* "submit-server-host", sent by a live login window.
SubmitServerHost ==
    /\ Ready
    /\ \E w \in LiveWindows(St, "login"), host \in Hosts :
         IF startsWith(host, "http://")
         THEN /\ dialog = NoDialog
              /\ Commit([Begin("submit-insecure-host")
                            EXCEPT !.dialog = [kind |-> "warning", host |-> host, sender |-> w]])
         ELSE Commit(connect(Begin("submit-server-host"), host))

\* The answer to the security warning: response 0 is "Continue".
AnswerWarning ==
    /\ Ready /\ dialog.kind = "warning"
    /\ \E response \in {0, 1} :
         LET s == [Begin(IF response = 0 THEN "warning-continue" ELSE "warning-cancel")
                       EXCEPT !.dialog = NoDialog] IN
         Commit(IF response = 0 THEN connect(s, dialog.host)
                ELSE IF IsDestroyed(s, dialog.sender) THEN Deref(s, dialog.sender)
                ELSE [s EXCEPT !.clearInput = TRUE])

\* "reset-server", sent by a live login window.
ResetServer ==
    /\ Ready /\ LiveWindows(St, "login") # {}
    /\ LET s0 == [Begin("reset-server") EXCEPT !.serverHost = NoHost]
           s1 == IF s0.mainWindow # Null THEN Close(s0, s0.mainWindow) ELSE s0
           s2 == IF s1.companionWindow # Null THEN Close(s1, s1.companionWindow) ELSE s1
       IN Commit(createLoginWindow(s2))

\* "hide-companion", sent by the close control injected into a companion
\* window.  The message is delivered asynchronously: the window that sent it
\* may be hidden or closed by the time the handler runs.
HideCompanion ==
    /\ Ready
    /\ \E w \in 1..Len(wins) : wins[w].kind = "companion"
    /\ LET s == Begin("hide-companion") IN
       Commit(IF s.companionWindow # Null /\ ~IsDestroyed(s, s.companionWindow)
              THEN hide(s) ELSE s)

(***************************************************************************)
(* Items of the application menu built by buildMenu.                       *)
(***************************************************************************)
AppMenu ==
    /\ Ready /\ appMenu # NoMenu
    /\ platform = "darwin" \/ LiveWindows(St, "main") \cup LiveWindows(St, "login") # {}

MenuDisconnect ==
    /\ AppMenu /\ dialog = NoDialog
    /\ Commit([Begin("menu-disconnect")
                  EXCEPT !.dialog = [kind |-> "disconnect", host |-> appMenu, sender |-> Null]])

\* The answer to the disconnect confirmation: response 0 is "Disconnect".
AnswerDisconnect ==
    /\ Ready /\ dialog.kind = "disconnect"
    /\ \E response \in {0, 1} :
         LET s == [Begin(IF response = 0 THEN "disconnect-confirmed"
                         ELSE "disconnect-cancelled") EXCEPT !.dialog = NoDialog]
             s0 == [s EXCEPT !.serverHost = NoHost]
             s1 == IF s0.mainWindow # Null THEN Close(s0, s0.mainWindow) ELSE s0
         IN Commit(IF response = 0 THEN createLoginWindow(s1) ELSE s)

MenuShowTrayIcon ==
    /\ AppMenu
    /\ LET s == Begin("menu-show-tray-icon") IN
       Commit(createTray([s EXCEPT !.settings = setSetting(s.settings, "trayVisibility", "always")]))

(***************************************************************************)
(* The user, outside the handlers: closing a window with the controls of   *)
(* the window server, and moving the input focus away from the companion.  *)
(***************************************************************************)
\* On macOS a message box without a parent window runs application-modal:
\* no window takes input until it is answered.
UserClose ==
    /\ Ready
    /\ dialog = NoDialog \/ platform # "darwin"
    /\ \E w \in getAllWindows(St) : Commit(Close(Begin("user-close"), w))

UserBlur ==
    /\ Ready
    /\ \E w \in LiveWindows(St, "companion") : wins[w].focused
    /\ Commit([Begin("user-blur") EXCEPT !.wins = Blur(wins)])

\* The user drags a companion window that is on screen by its title strip.
UserMove ==
    /\ Ready
    /\ \E w \in LiveWindows(St, "companion"), at \in DragTargets :
         /\ wins[w].visible
         /\ Commit([Begin("user-move") EXCEPT !.wins[w].pos = at])

(***************************************************************************)
(* Specification.                                                          *)
(***************************************************************************)
InitProgram ==
    /\ running = TRUE
    /\ started = FALSE
    /\ platform \in Platforms
    /\ screen \in ScreenSizes
    /\ serverHost \in Hosts \cup {NoHost}
    /\ settings \in StoredSettings
    /\ wins = <<>>
    /\ mainWindow = Null
    /\ companionWindow = Null
    /\ loginWindow = Null
    /\ tray = FALSE
    /\ clickListeners = 0
    /\ rightClickMenus = <<>>
    /\ appMenu = NoMenu
    /\ hotkey = FALSE
    /\ dialog = NoDialog
    /\ fault = NoFault
    /\ clearInput = FALSE
    /\ toggles = 0
    /\ popups = 0
    /\ rebuilds = 0
    /\ lastEvent = "launch"
    /\ events = 0
    /\ before = [companion |-> "Uncreated", tray |-> FALSE, pos |-> Origin]
    /\ run = 0
    /\ trace = <<>>

Init ==
    /\ InitProgram
    /\ rPosition = "top-center"
    /\ rWindow = <<CompanionWidth, CompanionHeight>>
    /\ rScreen \in ScreenSizes
    /\ rResult = NoResult

Next ==
    \/ WhenReady
    \/ GlobalShortcut
    \/ TrayClick
    \/ TrayRightClick
    \/ MenuOpenCompanion
    \/ MenuOpenMain
    \/ MenuPosition
    \/ MenuVisibility
    \/ MenuQuit
    \/ Activate
    \/ SubmitServerHost
    \/ AnswerWarning
    \/ ResetServer
    \/ HideCompanion
    \/ MenuDisconnect
    \/ AnswerDisconnect
    \/ MenuShowTrayIcon
    \/ UserClose
    \/ UserBlur
    \/ UserMove

Spec == Init /\ [][Next]_vars

(***************************************************************************)
(* The position resolver on its own: one call of the switch of             *)
(* getWindowPosition for a position name, window bounds and a work area.   *)
(***************************************************************************)
ResolverNames == PositionNames \cup {"middle", Undefined}

WindowSizes ==
    ((1..MaxWindowDim) \X (1..MaxWindowDim)) \cup
    { <<CompanionWidth, CompanionHeight>>, <<CompanionWidth, 1000>> }

WorkAreas == ((1..MaxScreenDim) \X (1..MaxScreenDim)) \cup ScreenSizes

ResolveInit ==
    /\ InitProgram
    /\ platform = "darwin"
    /\ serverHost = NoHost
    /\ settings = NoSettings
    /\ rPosition \in ResolverNames
    /\ rWindow \in WindowSizes
    /\ rScreen \in WorkAreas
    /\ rResult = NoResult

Resolve ==
    /\ rResult = NoResult
    /\ rResult' = WindowPosition(rPosition, rWindow[1], rWindow[2], rScreen[1], rScreen[2])
    /\ UNCHANGED <<running, started, platform, screen, serverHost, settings, wins,
                   mainWindow, companionWindow, loginWindow, tray, clickListeners,
                   rightClickMenus, appMenu, hotkey, dialog, fault, clearInput,
                   toggles, popups, rebuilds, lastEvent, events, before, run, trace,
                   rPosition, rWindow, rScreen>>

ResolveNext == Resolve

SpecResolve == ResolveInit /\ [][ResolveNext]_vars

(***************************************************************************)
(* Properties.                                                             *)
(***************************************************************************)
Kinds == {"main", "companion", "login"}
Visible(s) == CompanionState(s) \in {"VisibleFocused", "VisibleUnfocused"}
Resolved(position) ==
    WindowPosition(position, CompanionWidth, CompanionHeight, screen[1], screen[2])

\* The setting a radio group shows: the persisted record, or the defaults of
\* the tray when no record is persisted.
InForce == IF settings.present THEN settings
           ELSE [present |-> FALSE, position |-> "top-center", trayVisibility |-> "always"]

\* C1: toggle(), whichever trigger invokes it, is a no-op when the companion
\* window is Uncreated or Destroyed: no window state changes and no fault is
\* raised.
C1_ToggleWithoutCompanionIsNoOp ==
    [][ (lastEvent' \in ToggleEvents /\ CompanionState(St) \in {"Uncreated", "Destroyed"})
          => /\ fault' = NoFault
             /\ wins' = wins
             /\ <<mainWindow, companionWindow, loginWindow>>' =
                    <<mainWindow, companionWindow, loginWindow>> ]_vars

\* C2: no operation calls a method on a window or tray handle whose native
\* object was already destroyed: every such access is preceded by a liveness
\* check.
C2_NoCallOnDestroyedHandle == fault # ObjectDestroyed

\* C3: toggle() on a live companion window takes the transition its state at
\* the call decides: Visible and focused -> Hidden; Visible and unfocused ->
\* focused, still Visible, not moved; Hidden -> Visible and focused.
C3_ToggleTransitions ==
    [][ (lastEvent' \in ToggleEvents /\ CompanionState(St) \in {"Hidden", "VisibleFocused", "VisibleUnfocused"})
          => /\ companionWindow' = companionWindow
             /\ toggles' = 1
             /\ fault' = NoFault
             /\ CompanionState(St) = "VisibleFocused" =>
                    /\ CompanionState(St)' = "Hidden"
                    /\ wins'[companionWindow].pos = wins[companionWindow].pos
             /\ CompanionState(St) = "VisibleUnfocused" =>
                    /\ CompanionState(St)' = "VisibleFocused"
                    /\ wins'[companionWindow].pos = wins[companionWindow].pos
             /\ CompanionState(St) = "Hidden" =>
                    CompanionState(St)' = "VisibleFocused" ]_vars

C3_Witness ==
    /\ lastEvent \in ToggleEvents
    /\ before.companion = "VisibleUnfocused"
    /\ CompanionState(St) = "VisibleFocused"

\* C4: after n consecutive toggle() calls begun from Hidden, with no other
\* event in between, the companion is Visible iff n is odd and Hidden
\* otherwise, whatever triggers produced them.
C4_ToggleParity ==
    run > 0 => IF run % 2 = 1 THEN Visible(St) ELSE CompanionState(St) = "Hidden"

C4_Witness == run = 2 /\ CompanionState(St) = "Hidden"

\* C5: at most one Main window, one Companion window and one Login window
\* are live.
C5_OneLiveWindowPerKind ==
    \A k \in Kinds : Cardinality(LiveWindows(St, k)) <= 1

\* C6: with a host persisted, no live Main window and the Companion live but
\* hidden, an activate event leaves a live Main window and creates no second
\* Companion window.
C6_ActivateRestoresMain ==
    [][ (/\ lastEvent' = "activate"
         /\ serverHost # NoHost
         /\ LiveWindows(St, "main") = {}
         /\ CompanionState(St) = "Hidden")
          => /\ LiveWindows(St, "main")' # {}
             /\ Cardinality(LiveWindows(St, "companion"))' =
                    Cardinality(LiveWindows(St, "companion")) ]_vars

\* C7: a change of the position setting while the companion is Visible moves
\* the window, in the same step, to the resolved coordinates of the new
\* position and leaves its visibility and focus as they were.
C7_RepositionInPlace ==
    [][ (lastEvent' = "menu-position" /\ Visible(St))
          => /\ companionWindow' = companionWindow
             /\ wins'[companionWindow].pos = Resolved(settings.position)'
             /\ CompanionState(St)' = CompanionState(St) ]_vars

C7_Witness ==
    /\ lastEvent = "menu-position"
    /\ before.companion = "VisibleFocused"
    /\ CompanionState(St) = "VisibleFocused"
    /\ settings.position = "bottom-right"
    /\ wins[companionWindow].pos = Resolved("bottom-right")

\* C8: once startup has run, a live tray icon exists iff the persisted
\* trayVisibility is not 'never'.
C8_TrayIffNotNever ==
    started => (tray <=> settings.trayVisibility # "never")

C8_Witness ==
    /\ lastEvent = "menu-visibility"
    /\ before.tray
    /\ settings.trayVisibility = "never"
    /\ ~tray

\* C9: the context menu a tray right-click pops up was built from the
\* persisted settings: in each radio group an item is checked iff its value
\* is the value of the setting.
C9_MenuReflectsSettings ==
    \A i \in 1..Len(rightClickMenus) :
        /\ \A p \in PositionItems :
              p \in rightClickMenus[i].position <=> p = InForce.position
        /\ \A v \in VisibilityItems :
              v \in rightClickMenus[i].trayVisibility <=> v = InForce.trayVisibility

C9_Witness ==
    /\ lastEvent = "menu-position"
    /\ tray
    /\ Len(rightClickMenus) = 1
    /\ settings.position = "bottom-left"
    /\ rightClickMenus[1].position = {"bottom-left"}

\* C10: the position radio group of the tray menu has exactly one checked
\* item, the item of the position in force, for every position name
\* including the default.
C10_PositionGroupCoversSetting ==
    \A i \in 1..Len(rightClickMenus) :
        rightClickMenus[i].position = {InForce.position}


(***************************************************************************)
(* The position resolver.                                                  *)
(***************************************************************************)
BoundedNames == {"bottom-center", "bottom-left", "bottom-right", "center", "top-right"}

\* The result lies in [0, screenWidth - windowWidth] x [0, screenHeight - windowHeight].
InWorkArea ==
    /\ rResult[1] \in 0..(rScreen[1] - rWindow[1])
    /\ rResult[2] \in 0..(rScreen[2] - rWindow[2])

\* The window and its padding fit the work area, and a top-right window is no
\* taller than what is left below the tenth of the height.
Fits ==
    /\ rWindow[1] + Padding <= rScreen[1]
    /\ rWindow[2] + Padding <= rScreen[2]
    /\ rPosition = "top-right" => 10 * rWindow[2] <= 9 * rScreen[2] - 5

\* C11 as stated: for arbitrary positive window and work-area dimensions the
\* result for bottom-center, bottom-left, bottom-right, center and top-right
\* satisfies 0 <= x <= screenWidth - windowWidth and
\* 0 <= y <= screenHeight - windowHeight.
C11_AnyDimensionsWithinWorkArea ==
    (rResult # NoResult /\ rPosition \in BoundedNames) => InWorkArea

\* C11: when the window plus the 20 px padding fits the work area in both
\* directions (and, for top-right, the window height is at most 0.9 of the
\* work-area height less one half), the result for bottom-center,
\* bottom-left, bottom-right, center and top-right satisfies
\* 0 <= x <= screenWidth - windowWidth and 0 <= y <= screenHeight - windowHeight.
C11_FittingWindowWithinWorkArea ==
    (rResult # NoResult /\ rPosition \in BoundedNames /\ Fits) => InWorkArea

C11_Witness ==
    /\ rPosition = "top-right"
    /\ rWindow = <<CompanionWidth, CompanionHeight>>
    /\ rScreen = <<1920, 1080>>
    /\ Fits
    /\ rResult = <<1500, 108>>

\* v is (free / 2) rounded to a nearest integer.
NearestHalf(v, free) == 2 * v - free \in -1..1

\* v is (length / 10) rounded to a nearest integer.
NearestTenth(v, length) == 10 * v - length \in -5..5

\* C12: the result of the resolver is the per-position formula rounded to the
\* nearest integer (bottom-right, 400x600 window, 1920x1080 work area gives
\* (1500, 460)); a name outside the six position names gives exactly the
\* top-center result.
C12_ResolverFormulas ==
    rResult # NoResult =>
        LET name == IF rPosition \in PositionNames THEN rPosition ELSE "top-center"
            freeW == rScreen[1] - rWindow[1]
            freeH == rScreen[2] - rWindow[2]
            x == rResult[1]
            y == rResult[2]
        IN /\ Len(rResult) = 2
           /\ name \in {"bottom-center", "center", "top-center"} => NearestHalf(x, freeW)
           /\ name = "bottom-left" => x = 20
           /\ name \in {"bottom-right", "top-right"} => x = freeW - 20
           /\ name \in {"bottom-center", "bottom-left", "bottom-right"} => y = freeH - 20
           /\ name = "center" => NearestHalf(y, freeH)
           /\ name \in {"top-right", "top-center"} => NearestTenth(y, rScreen[2])
           /\ rPosition \notin PositionNames =>
                  rResult = WindowPosition("top-center", rWindow[1], rWindow[2],
                                           rScreen[1], rScreen[2])
           /\ (rPosition = "bottom-right" /\ rWindow = <<400, 600>> /\ rScreen = <<1920, 1080>>)
                  => rResult = <<1500, 460>>

C12_Witness ==
    /\ rPosition = "bottom-right"
    /\ rWindow = <<CompanionWidth, CompanionHeight>>
    /\ rScreen = <<1920, 1080>>
    /\ rResult = <<1500, 460>>

(***************************************************************************)
(* Login, reset and startup.                                               *)
(***************************************************************************)
\* The windows of a kind that a step creates and leaves live.
\* (Windows are appended to wins, so the new ones are the new indices.)
LiveOfKind(ws, k) == { w \in 1..Len(ws) : ws[w].kind = k /\ ws[w].alive }

\* C13: an insecure host submitted from a login window persists nothing and
\* creates nothing until the warning is answered; cancel leaves the persisted
\* host as it was, creates no window and sends the clear-input signal;
\* continue persists exactly the submitted host and creates a main and a
\* companion window.
C13_InsecureHostWarning ==
    [][ /\ lastEvent' = "submit-insecure-host" =>
              /\ serverHost' = serverHost
              /\ Len(wins') = Len(wins)
        /\ lastEvent' = "warning-cancel" =>
              /\ serverHost' = serverHost
              /\ Len(wins') = Len(wins)
              /\ clearInput'
        /\ lastEvent' = "warning-continue" =>
              /\ serverHost' = dialog.host
              /\ \E m, c \in (Len(wins) + 1)..Len(wins') :
                    /\ m \in LiveOfKind(wins', "main")
                    /\ c \in LiveOfKind(wins', "companion") ]_vars

\* C14: after a reset, by the reset signal or by a confirmed 'Disconnect from
\* host', the persisted host is absent, no main and no companion window is
\* live, and a login window is on screen.
C14_ResetPostcondition ==
    lastEvent \in {"reset-server", "disconnect-confirmed"} =>
        /\ serverHost = NoHost
        /\ LiveOfKind(wins, "main") = {}
        /\ LiveOfKind(wins, "companion") = {}
        /\ \E w \in LiveOfKind(wins, "login") : wins[w].visible

\* C15: startup with a persisted host creates the companion window (hidden),
\* then the main window (visible), then builds the menu for that host, then
\* ensures the tray, then registers the hotkey; startup without a persisted
\* host creates a login window and neither a main nor a companion window.
C15_StartupOrder ==
    lastEvent = "ready" =>
        IF serverHost # NoHost
        THEN /\ trace = <<"createCompanionWindow", "createMainWindow", "buildMenu",
                          "createTray", "globalShortcut.register">>
             /\ Len(wins) = 2
             /\ wins[1].kind = "companion" /\ wins[1].alive /\ ~wins[1].visible
             /\ wins[2].kind = "main" /\ wins[2].alive /\ wins[2].visible
             /\ appMenu = serverHost
             /\ hotkey
        ELSE /\ trace = <<"createLoginWindow", "createTray", "globalShortcut.register">>
             /\ Len(wins) = 1
             /\ wins[1].kind = "login" /\ wins[1].alive

C15_Witness ==
    /\ lastEvent = "ready"
    /\ serverHost # NoHost
    /\ companionWindow = 1
    /\ mainWindow = 2
    /\ hotkey

(***************************************************************************)
(* Showing and hiding the companion window.                                *)
(***************************************************************************)
\* C16: whenever a companion window goes from hidden to visible it is placed
\* at the resolved position of the persisted setting (top-center when
\* absent), wherever it was before it was hidden or was dragged to.
C16_ShownAtResolvedPosition ==
    [][ \A w \in 1..Len(wins) :
          (/\ wins[w].kind = "companion" /\ wins[w].alive /\ ~wins[w].visible
           /\ wins'[w].alive /\ wins'[w].visible)
          => wins'[w].pos =
                Resolved(IF settings.present THEN settings.position ELSE "top-center") ]_vars

C16_Witness ==
    /\ lastEvent \in ToggleEvents
    /\ before.companion = "Hidden"
    /\ before.pos \in DragTargets
    /\ Visible(St)
    /\ wins[companionWindow].pos = Resolved(InForce.position)

IsConnectStep(name) == name \in {"store.set", "createCompanionWindow", "createMainWindow"}

\* C17: a login submission that goes through (a host without the insecure
\* scheme, or an insecure one confirmed) persists the host, then creates the
\* companion window, then the main window, as startup does.
C17_SubmitCreatesCompanionFirst ==
    lastEvent \in {"submit-server-host", "warning-continue"} =>
        SelectSeq(trace, IsConnectStep) =
            <<"store.set", "createCompanionWindow", "createMainWindow">>

\* C18: the persisted settings record changes only in an update-setting
\* operation (a position or visibility item of the tray menu), and after it
\* the rebuilt tray menu shows the record just written.
C18_SettingsOnlyByUpdateSetting ==
    [][ /\ settings' # settings => lastEvent' \in {"menu-position", "menu-visibility"}
        /\ (lastEvent' \in {"menu-position", "menu-visibility"} /\ tray') =>
              \A i \in 1..Len(rightClickMenus') :
                  \A v \in VisibilityItems :
                      v \in rightClickMenus'[i].trayVisibility <=> v = settings'.trayVisibility
      ]_vars

\* C19: the hide-companion signal takes a Visible companion to Hidden and
\* leaves the window live, referenced and in place; with the companion
\* Uncreated or Destroyed it changes nothing and raises no fault.
C19_HideCompanionSignal ==
    [][ lastEvent' = "hide-companion" =>
          /\ fault' = NoFault
          /\ companionWindow' = companionWindow
          /\ Visible(St) =>
                /\ CompanionState(St)' = "Hidden"
                /\ wins'[companionWindow].alive
                /\ wins'[companionWindow].pos = wins[companionWindow].pos
          /\ CompanionState(St) \in {"Uncreated", "Destroyed"} => wins' = wins ]_vars

C19_Witness ==
    /\ lastEvent = "hide-companion"
    /\ before.companion \in {"VisibleFocused", "VisibleUnfocused"}
    /\ CompanionState(St) = "Hidden"

\* C20: the open-main-window item of the tray menu creates a main window only
\* when no main window is live and a host is persisted, otherwise shows and
\* focuses the live one; it never leaves two live main windows and creates
\* nothing while no host is persisted.
C20_OpenMainCreatesOnlyWhenAbsent ==
    [][ lastEvent' = "menu-open-main" =>
          /\ Len(wins') > Len(wins) =>
                (LiveOfKind(wins, "main") = {} /\ serverHost # NoHost)
          /\ Cardinality(LiveOfKind(wins, "main")) <= 1 =>
                Cardinality(LiveOfKind(wins', "main")) <= 1
          /\ serverHost = NoHost => Len(wins') = Len(wins)
          /\ LiveOfKind(wins, "main") # {} =>
                \E w \in LiveOfKind(wins, "main") : wins'[w].visible /\ wins'[w].focused
      ]_vars

(***************************************************************************)
(* References and listeners.                                               *)
(***************************************************************************)
\* C21: in every reachable state the main window reference is null exactly
\* when no main window is live; the 'closed' notification of one main window
\* never clears the reference to another main window that is still live.
C21_MainReferenceTracksLiveMain ==
    mainWindow = Null <=> LiveOfKind(wins, "main") = {}

\* C22: however many times createTray has set up the same tray icon, the icon
\* has one click listener and one right-click listener: a left-click calls
\* toggleWindow exactly once and a right-click pops up exactly one menu.
C22_TrayListenersReplaced ==
    /\ tray => (clickListeners = 1 /\ Len(rightClickMenus) = 1)
    /\ lastEvent = "tray-click" => toggles = 1
    /\ lastEvent = "tray-right-click" => popups = 1

C22_Witness ==
    /\ lastEvent = "tray-click"
    /\ rebuilds >= 3
    /\ toggles = 1
    /\ before.companion = "Hidden"
    /\ Visible(St)
====
